---- MODULE Spec2Model ----
(***************************************************************************)
(* Schedule endpoint backed by one JSON file in a remote versioned file    *)
(* host.  Two handler variants exist: src/api/jadwal.js (variant "A") and  *)
(* src/unnamed/part_000 (variant "B"); they differ in githubRequest and in *)
(* getCurrentSchedules.  part_000 elides validateSchedule and              *)
(* generateScheduleId with "bagian lainnya tetap sama" (the rest stays the *)
(* same), so both variants use the definitions of jadwal.js.               *)
(*                                                                         *)
(* A string that the code only tests for emptiness or set membership is a  *)
(* TLA+ string, "" standing for a missing or empty (falsy) value.  A time  *)
(* string is a sequence of one-character strings, so that the regular      *)
(* expression and the Date parser are computed character by character.     *)
(* A record id is a natural number, 0 standing for a missing id.  note is   *)
(* a field the handler does not know (the body is stored as it came).      *)
(***************************************************************************)
EXTENDS Naturals, Sequences, FiniteSets

VARIABLES
  variant,   \* which handler file serves the requests: "A" or "B"
  blob,      \* the remote file: [exists, hasContent, recs]
  nextId,    \* the next value generateScheduleId returns
  req,       \* per request slot: the handler's position and locals
  vin,       \* validation harness: the input given to validateSchedule
  verrs,     \* validation harness: the error list it returned
  vpc        \* validation harness: "in" before the call, "out" after

vars == <<variant, blob, nextId, req, vin, verrs, vpc>>

(***************************************************************************)
(* Bounds                                                                  *)
(***************************************************************************)
MaxIds == 2

Reqs == {"r1", "r2"}

Ids == 1..MaxIds

(***************************************************************************)
(* validateSchedule                                                        *)
(***************************************************************************)
Digits == {"0", "1", "2", "3", "4", "5", "6", "7", "8", "9"}

DigitVal(c) ==
  CASE c = "0" -> 0 [] c = "1" -> 1 [] c = "2" -> 2 [] c = "3" -> 3
    [] c = "4" -> 4 [] c = "5" -> 5 [] c = "6" -> 6 [] c = "7" -> 7
    [] c = "8" -> 8 [] c = "9" -> 9 [] OTHER -> 0

\* /^([01]?[0-9]|2[0-3]):[0-5][0-9]$/.test(t)
TimeRegex(t) ==
  \/ /\ Len(t) = 5
     /\ t[3] = ":"
     /\ \/ (t[1] \in {"0", "1"} /\ t[2] \in Digits)
        \/ (t[1] = "2" /\ t[2] \in {"0", "1", "2", "3"})
     /\ t[4] \in {"0", "1", "2", "3", "4", "5"}
     /\ t[5] \in Digits
  \/ /\ Len(t) = 4
     /\ t[2] = ":"
     /\ t[1] \in Digits
     /\ t[3] \in {"0", "1", "2", "3", "4", "5"}
     /\ t[4] \in Digits

\* new Date(`1970-01-01T${t}:00`): the ISO form needs two hour digits and two
\* minute digits, hour 00..24 (24 only as 24:00), minute 00..59; anything else
\* after the "T" is an Invalid Date in V8.  [nan |-> TRUE] is the Invalid Date,
\* otherwise ms counts the minutes since 1970-01-01T00:00.
NaNDate == [nan |-> TRUE, ms |-> 0]

ParseDate(t) ==
  IF /\ Len(t) = 5
     /\ t[3] = ":"
     /\ t[1] \in Digits /\ t[2] \in Digits /\ t[4] \in Digits /\ t[5] \in Digits
  THEN LET h == 10 * DigitVal(t[1]) + DigitVal(t[2])
           m == 10 * DigitVal(t[4]) + DigitVal(t[5])
       IN  IF h <= 24 /\ m <= 59 /\ (h = 24 => m = 0)
           THEN [nan |-> FALSE, ms |-> 60 * h + m]
           ELSE NaNDate
  ELSE NaNDate

\* end <= start on two Date objects: false when either is an Invalid Date
DateLeq(a, b) == ~a.nan /\ ~b.nan /\ a.ms <= b.ms

ErrClass == "Kelas harus diisi dan harus 'XI A' atau 'XI B'"
ErrDay == "Hari harus diisi dan harus Senin, Selasa, Rabu, Kamis, atau Jumat"
ErrSubject == "Mata pelajaran wajib diisi"
ErrTeacher == "Nama guru wajib diisi"
ErrStart == "Waktu mulai harus diisi dengan format HH:mm"
ErrEnd == "Waktu selesai harus diisi dengan format HH:mm"
ErrOrder == "Waktu selesai harus setelah waktu mulai"

ValidClasses == {"XI A", "XI B"}
ValidDays == {"Senin", "Selasa", "Rabu", "Kamis", "Jumat"}

\* errors.push(msg) under a condition
PushIf(errors, cond, msg) == IF cond THEN Append(errors, msg) ELSE errors

validateSchedule(schedule) ==
  LET e1 == PushIf(<<>>, schedule.class = "" \/ schedule.class \notin ValidClasses,
                   ErrClass)
      e2 == PushIf(e1, schedule.day = "" \/ schedule.day \notin ValidDays, ErrDay)
      e3 == PushIf(e2, schedule.subject = "", ErrSubject)
      e4 == PushIf(e3, schedule.teacher = "", ErrTeacher)
      e5 == PushIf(e4, schedule.startTime = <<>> \/ ~TimeRegex(schedule.startTime),
                   ErrStart)
      e6 == PushIf(e5, schedule.endTime = <<>> \/ ~TimeRegex(schedule.endTime),
                   ErrEnd)
      e7 == PushIf(e6,
                   /\ schedule.startTime # <<>>
                   /\ schedule.endTime # <<>>
                   /\ DateLeq(ParseDate(schedule.endTime),
                              ParseDate(schedule.startTime)),
                   ErrOrder)
  IN  e7

(***************************************************************************)
(* The remote file host (GitHub contents API), an external collaborator.   *)
(* The version token (sha) identifies the file's content: equal content,   *)
(* equal token.                                                            *)
(***************************************************************************)
NoBlob == [exists |-> FALSE, hasContent |-> FALSE, recs |-> <<>>]

\* the file exists and is zero bytes long
EmptyBlob == [exists |-> TRUE, hasContent |-> FALSE, recs |-> <<>>]

NoSha == [present |-> FALSE, hasContent |-> FALSE, recs |-> <<>>]

ShaOf(b) == [present |-> TRUE, hasContent |-> b.hasContent, recs |-> b.recs]

\* An HTTP exchange as githubRequest sees it: net = "error" when the request
\* emits 'error'; otherwise a status, a content type, whether the body parses
\* as JSON and, when it does, the fields the handler reads (content, sha).
NetError ==
  [net |-> "error", status |-> 0, ctype |-> "none", parses |-> FALSE,
   hasContent |-> FALSE, recs |-> <<>>, sha |-> NoSha]

JsonResp(status, hasContent, recs, sha) ==
  [net |-> "ok", status |-> status, ctype |-> "json", parses |-> TRUE,
   hasContent |-> hasContent, recs |-> recs, sha |-> sha]

\* a gateway's HTML error page: not JSON
HtmlResp(status) ==
  [net |-> "ok", status |-> status, ctype |-> "html", parses |-> FALSE,
   hasContent |-> FALSE, recs |-> <<>>, sha |-> NoSha]

\* a body announced as JSON that is cut short: JSON.parse throws on it
BadJsonResp(status) ==
  [net |-> "ok", status |-> status, ctype |-> "json", parses |-> FALSE,
   hasContent |-> FALSE, recs |-> <<>>, sha |-> NoSha]

\* failures of the store that leave the file as it is
FailResponses ==
  {JsonResp(401, FALSE, <<>>, NoSha), HtmlResp(502), BadJsonResp(200), NetError}

\* GET /contents/jadwal.json
StoreGet(b) ==
  IF b.exists
  THEN JsonResp(200, b.hasContent, b.recs, ShaOf(b))
  ELSE JsonResp(404, FALSE, <<>>, NoSha)

\* PUT /contents/jadwal.json: the status the store answers
StorePutStatus(b, put) ==
  IF ~b.exists
  THEN (IF put.sha.present THEN 409 ELSE 201)
  ELSE IF ~put.sha.present THEN 422
  ELSE IF put.sha = ShaOf(b) THEN 200
  ELSE 409

StoreAccepts(b, put) == StorePutStatus(b, put) \in {200, 201}

\* the file after the PUT
StorePutBlob(b, put) ==
  IF StoreAccepts(b, put)
  THEN [exists |-> TRUE, hasContent |-> put.hasContent, recs |-> put.recs]
  ELSE b

StorePutResp(b, put) ==
  JsonResp(StorePutStatus(b, put), FALSE, <<>>, ShaOf(StorePutBlob(b, put)))

(***************************************************************************)
(* githubRequest and getCurrentSchedules, per variant                      *)
(***************************************************************************)
Resolved(http, isString) ==
  [resolved |-> TRUE, isString |-> isString, json |-> http, statusCode |-> 0,
   message |-> "", details |-> ""]

\* reject({statusCode, message, details | errors}); details names what the
\* code puts there: the parser's or the socket's error message, or the errors
\* field of the store's JSON answer
Rejected(statusCode, message, details) ==
  [resolved |-> FALSE, isString |-> FALSE, json |-> NetError,
   statusCode |-> statusCode, message |-> message, details |-> details]

githubRequestA(http) ==
  IF http.net = "error" THEN Rejected(500, "Network error", "error.message")
  ELSE IF ~http.parses THEN Rejected(500, "JSON parse error", "e.message")
  ELSE IF http.status >= 200 /\ http.status < 300 THEN Resolved(http, FALSE)
  ELSE Rejected(http.status, "GitHub API error", "json.errors")

githubRequestB(http) ==
  IF http.net = "error" THEN Rejected(500, "Network error", "error.message")
  ELSE IF http.ctype = "json"
  THEN (IF http.parses THEN Resolved(http, FALSE)
        ELSE Rejected(500, "JSON parse error", "e.message"))
  ELSE Resolved(http, TRUE)

githubRequest(v, http) ==
  IF v = "A" THEN githubRequestA(http) ELSE githubRequestB(http)

\* JSON.parse(Buffer.from(fileData.content, "base64").toString("utf8"))
Decode(json) == json.recs

\* Buffer.from(JSON.stringify(schedules, null, 2)).toString("base64"): never
\* empty, "[]" for the empty list
Encode(schedules) == [hasContent |-> TRUE, recs |-> schedules]

NoError == [statusCode |-> 0, message |-> "", details |-> ""]

Snapshot(schedules, sha) ==
  [ok |-> TRUE, schedules |-> schedules, sha |-> sha, err |-> NoError]

Thrown(res) ==
  [ok |-> FALSE, schedules |-> <<>>, sha |-> NoSha,
   err |-> [statusCode |-> res.statusCode, message |-> res.message,
            details |-> res.details]]

getCurrentSchedulesMut(v, res) ==
  IF ~res.resolved THEN Thrown(res)
  ELSE IF v = "B" /\ res.isString THEN Snapshot(<<>>, NoSha)
  ELSE IF res.isString \/ ~res.json.hasContent THEN Snapshot(<<>>, NoSha)
  ELSE Snapshot(Decode(res.json), res.json.sha)

getCurrentSchedules(v, res) ==
  IF ~res.resolved
  THEN (IF res.statusCode = 404 THEN Snapshot(<<>>, NoSha) ELSE Thrown(res))
  ELSE IF v = "B" /\ res.isString THEN Snapshot(<<>>, NoSha)
  ELSE IF res.isString \/ ~res.json.hasContent THEN Snapshot(<<>>, NoSha)
  ELSE Snapshot(Decode(res.json), res.json.sha)

\* what a GET of the endpoint answers when the store holds b and answers
ListOf(v, b) == getCurrentSchedules(v, githubRequest(v, StoreGet(b))).schedules

(***************************************************************************)
(* The handler (module.exports).  A request runs from one await to the     *)
(* next in one step: Start* up to the GET it sends, ReadResp from the      *)
(* store's answer to the GET up to the PUT it sends (or its response),     *)
(* WriteResp from the store's handling of the PUT to the response.         *)
(***************************************************************************)
BlankSchedule ==
  [class |-> "", day |-> "", subject |-> "", teacher |-> "", startTime |-> <<>>,
   endTime |-> <<>>, id |-> 0, note |-> ""]

NoPut == [hasContent |-> FALSE, recs |-> <<>>, sha |-> NoSha]

\* pc: idle, read (GET in flight), write (PUT in flight), done (answered)
\* schedule: newSchedule / updatedSchedule / deletedSchedule; qid: req.query.id
\* put: the PUT in flight; status, error, out: the response sent
\* input: the body as it came; saw, rsha, wres: what the store answered to the
\* GET (absent, empty, json, fail), the token getCurrentSchedules returned,
\* and what became of the PUT (accepted, conflict: token mismatch, nosha: a
\* token was needed, failed: the store did not handle it, lost: accepted and
\* the answer lost); details: the details of an error response; fault: how
\* the last answer of the store failed (none, status, html, badjson, net)
Idle ==
  [pc |-> "idle", method |-> "-", schedule |-> BlankSchedule, qid |-> 0,
   put |-> NoPut, status |-> 0, error |-> "", out |-> <<>>,
   input |-> BlankSchedule, saw |-> "none", rsha |-> NoSha, wres |-> "none",
   details |-> "", fault |-> "none"]

\* res.status(s).json(...): the response ends the request; its locals go
Respond(rq, status, error, out) ==
  [rq EXCEPT !.pc = "done", !.status = status, !.error = error, !.out = out,
             !.schedule = BlankSchedule, !.qid = 0, !.put = NoPut,
             !.input = BlankSchedule, !.rsha = NoSha]

\* the catch at the end of the handler
StatusOr500(statusCode) == IF statusCode # 0 THEN statusCode ELSE 500

CaughtMut(rq, err) == [rq EXCEPT !.pc = "hung"]

Caught(rq, err) ==
  [Respond(rq, StatusOr500(err.statusCode), err.message, <<>>)
     EXCEPT !.details = err.details]

generateScheduleId == nextId

\* newSchedule.id = generateScheduleId()
AssignIdMut(newSchedule, id) ==
  IF newSchedule.id # 0 THEN newSchedule ELSE [newSchedule EXCEPT !.id = id]

AssignId(newSchedule, id) == [newSchedule EXCEPT !.id = id]

\* if (errors.length > 0) return res.status(400)
HasErrorsMut(errors) == Len(errors) > 1

HasErrors(errors) == Len(errors) > 0

\* schedules.findIndex((s) => s.id === id), 0 for -1
findIndex(schedules, id) ==
  IF \E i \in 1..Len(schedules) : schedules[i].id = id
  THEN CHOOSE i \in 1..Len(schedules) :
         /\ schedules[i].id = id
         /\ \A j \in 1..(i - 1) : schedules[j].id # id
  ELSE 0

\* schedules.splice(index, 1)
Splice(schedules, index) ==
  [i \in 1..(Len(schedules) - 1) |->
     IF i < index THEN schedules[i] ELSE schedules[i + 1]]

\* if (sha) updatePayload.sha = sha
PayloadSha(sha) == IF sha.present THEN sha ELSE NoSha

updatePayload(schedules, sha) ==
  [hasContent |-> Encode(schedules).hasContent, recs |-> Encode(schedules).recs,
   sha |-> PayloadSha(sha)]

SendPut(rq, schedules, sha) ==
  [rq EXCEPT !.pc = "write", !.put = updatePayload(schedules, sha)]

\* GET branch after getCurrentSchedules
GetAfterRead(rq, cur) == Respond(rq, 200, "", cur.schedules)

\* POST branch after getCurrentSchedules: [...schedules, newSchedule]
PostAfterReadMut(rq, cur) ==
  SendPut(rq, <<rq.schedule>> \o cur.schedules, cur.sha)

PostAfterRead(rq, cur) == SendPut(rq, Append(cur.schedules, rq.schedule), cur.sha)

\* PUT branch after getCurrentSchedules
PutAfterReadMut(rq, cur) ==
  LET scheduleIndex == findIndex(cur.schedules, rq.schedule.id)
      old == cur.schedules[scheduleIndex]
      merged == [rq.schedule EXCEPT
                   !.note = IF rq.schedule.note = "" THEN old.note
                            ELSE rq.schedule.note]
  IN  IF scheduleIndex = 0
      THEN Respond(rq, 404, "Jadwal tidak ditemukan", <<>>)
      ELSE SendPut(rq, [cur.schedules EXCEPT ![scheduleIndex] = merged], cur.sha)

PutAfterRead(rq, cur) ==
  LET scheduleIndex == findIndex(cur.schedules, rq.schedule.id)
  IN  IF scheduleIndex = 0
      THEN Respond(rq, 404, "Jadwal tidak ditemukan", <<>>)
      ELSE SendPut(rq, [cur.schedules EXCEPT ![scheduleIndex] = rq.schedule],
                   cur.sha)

\* DELETE branch after getCurrentSchedules
DeleteAfterReadMut(rq, cur) ==
  LET scheduleIndex == findIndex(cur.schedules, rq.qid)
  IN  IF scheduleIndex = 0
      THEN SendPut(rq, cur.schedules, cur.sha)
      ELSE SendPut([rq EXCEPT !.schedule = cur.schedules[scheduleIndex]],
                   Splice(cur.schedules, scheduleIndex), cur.sha)

DeleteAfterRead(rq, cur) ==
  LET scheduleIndex == findIndex(cur.schedules, rq.qid)
  IN  IF scheduleIndex = 0
      THEN Respond(rq, 404, "Jadwal tidak ditemukan", <<>>)
      ELSE SendPut([rq EXCEPT !.schedule = cur.schedules[scheduleIndex]],
                   Splice(cur.schedules, scheduleIndex), cur.sha)

AfterRead(v, rq, http) ==
  LET cur == getCurrentSchedules(v, githubRequest(v, http))
      got == [rq EXCEPT !.rsha = cur.sha]
  IN  IF ~cur.ok THEN Caught(got, cur.err)
      ELSE CASE rq.method = "GET" -> GetAfterRead(got, cur)
             [] rq.method = "POST" -> PostAfterRead(got, cur)
             [] rq.method = "PUT" -> PutAfterRead(got, cur)
             [] OTHER -> DeleteAfterRead(got, cur)

\* after await updateGitHubFile(...): 201 for POST, 200 for PUT and DELETE
SuccessStatus(method) == IF method = "POST" THEN 201 ELSE 200

AfterWriteMut(v, rq, http) ==
  LET res == githubRequest(v, http)
  IN  IF res.resolved
      THEN Respond(rq, SuccessStatus(rq.method), "", <<rq.schedule>>)
      ELSE IF res.statusCode = 409
      THEN [rq EXCEPT !.pc = "read", !.put = NoPut]
      ELSE Caught(rq, [statusCode |-> res.statusCode, message |-> res.message,
                       details |-> res.details])

AfterWrite(v, rq, http) ==
  LET res == githubRequest(v, http)
  IN  IF res.resolved
      THEN Respond(rq, SuccessStatus(rq.method), "", <<rq.schedule>>)
      ELSE Caught(rq, [statusCode |-> res.statusCode, message |-> res.message,
                       details |-> res.details])

(***************************************************************************)
(* Inputs                                                                  *)
(***************************************************************************)
T0800 == <<"0", "8", ":", "0", "0">>
T0930 == <<"0", "9", ":", "3", "0">>
T800 == <<"8", ":", "0", "0">>
T930 == <<"9", ":", "3", "0">>
T2500 == <<"2", "5", ":", "0", "0">>
T2400 == <<"2", "4", ":", "0", "0">>
T2359 == <<"2", "3", ":", "5", "9">>

\* request bodies the handlers are driven with: a well-formed one carrying a
\* note, one with single-digit hours and the end before the start, one with
\* the end before the start, one with two violations
Shapes ==
  {[subject |-> "Mat", startTime |-> T0800, endTime |-> T0930, note |-> "x"],
   [subject |-> "Fis", startTime |-> T930, endTime |-> T800, note |-> ""],
   [subject |-> "Mat", startTime |-> T0930, endTime |-> T0800, note |-> ""],
   [subject |-> "", startTime |-> T0930, endTime |-> T0800, note |-> ""]}

Bodies ==
  {[class |-> "XI A", day |-> "Senin", subject |-> s.subject, teacher |-> "Budi",
    startTime |-> s.startTime, endTime |-> s.endTime, id |-> i,
    note |-> s.note] :
     s \in Shapes, i \in 0..MaxIds}

\* a create's body has no id, or a client's own
PostBodies == {b \in Bodies : b.id <= 1}

\* inputs validateSchedule is applied to on its own
TimeStrs == {<<>>, T0800, T0930, T800, T930, T2500, T2400, T2359}

ValidateInputs ==
  [class : {"XI A", "XI B", "XI C", ""}, day : {"Senin", "Jumat", "Minggu", ""},
   subject : {"Mat", ""}, teacher : {"Budi", ""}, startTime : TimeStrs,
   endTime : TimeStrs, id : {0}, note : {""}]

(***************************************************************************)
(* Actions                                                                 *)
(***************************************************************************)
Harness == UNCHANGED <<vin, verrs, vpc>>

\* A request ends with its response: pc = "done" shows the response in the
\* state right after it was sent, and Return frees the slot before any
\* request takes its next step (an answered request does nothing more).
NoneDone == \A q \in Reqs : req[q].pc # "done"

StartGet(r) ==
  /\ NoneDone
  /\ req[r].pc = "idle"
  /\ req' = [req EXCEPT ![r] = [Idle EXCEPT !.pc = "read", !.method = "GET"]]
  /\ UNCHANGED <<variant, blob, nextId>>
  /\ Harness

StartPost(r, body) ==
  /\ NoneDone
  /\ req[r].pc = "idle"
  /\ LET rq == [Idle EXCEPT !.method = "POST", !.schedule = body, !.input = body]
         errors == validateSchedule(body)
     IN  IF HasErrors(errors)
         THEN /\ req' = [req EXCEPT ![r] = Respond(rq, 400, "validation", <<>>)]
              /\ UNCHANGED nextId
         ELSE /\ nextId <= MaxIds
              /\ req' = [req EXCEPT ![r] =
                           [rq EXCEPT !.pc = "read",
                                      !.schedule = AssignId(body, generateScheduleId)]]
              /\ nextId' = nextId + 1
  /\ UNCHANGED <<variant, blob>>
  /\ Harness

StartPut(r, body) ==
  /\ NoneDone
  /\ req[r].pc = "idle"
  /\ LET rq == [Idle EXCEPT !.method = "PUT", !.schedule = body, !.input = body]
         errors == validateSchedule(body)
     IN  req' = [req EXCEPT ![r] =
                   IF body.id = 0
                   THEN Respond(rq, 400, "ID jadwal wajib diisi", <<>>)
                   ELSE IF HasErrors(errors)
                   THEN Respond(rq, 400, "validation", <<>>)
                   ELSE [rq EXCEPT !.pc = "read"]]
  /\ UNCHANGED <<variant, blob, nextId>>
  /\ Harness

StartDelete(r, id) ==
  /\ NoneDone
  /\ req[r].pc = "idle"
  /\ LET rq == [Idle EXCEPT !.method = "DELETE", !.qid = id]
     IN  req' = [req EXCEPT ![r] =
                   IF id = 0
                   THEN Respond(rq, 400, "ID jadwal wajib diisi", <<>>)
                   ELSE [rq EXCEPT !.pc = "read"]]
  /\ UNCHANGED <<variant, blob, nextId>>
  /\ Harness

SawOf(b, http) ==
  IF http \in FailResponses THEN "fail"
  ELSE IF ~b.exists THEN "absent"
  ELSE IF ~b.hasContent THEN "empty"
  ELSE "json"

\* how an answer of the store failed, if it did
FaultOf(http) ==
  IF http.net = "error" THEN "net"
  ELSE IF http.ctype # "json" THEN "html"
  ELSE IF ~http.parses THEN "badjson"
  ELSE IF http \in FailResponses THEN "status"
  ELSE "none"

\* the store answers the GET and the handler runs on to its next await
ReadResp(r) ==
  /\ NoneDone
  /\ req[r].pc = "read"
  /\ \E http \in {StoreGet(blob)} \cup FailResponses :
       req' = [req EXCEPT ![r] =
                 AfterRead(variant,
                           [req[r] EXCEPT !.saw = SawOf(blob, http),
                                          !.fault = FaultOf(http)],
                           http)]
  /\ UNCHANGED <<variant, blob, nextId>>
  /\ Harness

\* the store handles the PUT (or fails before touching the file) and the
\* handler answers
WriteResp(r) ==
  /\ NoneDone
  /\ req[r].pc = "write"
  /\ \E http \in {StorePutResp(blob, req[r].put)} \cup FailResponses :
       LET handled == http \notin FailResponses
           wres == IF ~handled THEN "failed"
                   ELSE IF StoreAccepts(blob, req[r].put) THEN "accepted"
                   ELSE IF StorePutStatus(blob, req[r].put) = 422 THEN "nosha"
                   ELSE "conflict"
       IN  /\ blob' = IF handled THEN StorePutBlob(blob, req[r].put) ELSE blob
           /\ req' = [req EXCEPT ![r] =
                        AfterWrite(variant,
                                   [req[r] EXCEPT !.wres = wres,
                                                  !.fault = FaultOf(http)],
                                   http)]
  /\ UNCHANGED <<variant, nextId>>
  /\ Harness

\* the store accepts the PUT and the connection breaks before the answer
WriteLost(r) ==
  /\ NoneDone
  /\ req[r].pc = "write"
  /\ StoreAccepts(blob, req[r].put)
  /\ blob' = StorePutBlob(blob, req[r].put)
  /\ req' = [req EXCEPT ![r] =
               AfterWrite(variant,
                          [req[r] EXCEPT !.wres = "lost",
                                         !.fault = FaultOf(NetError)],
                          NetError)]
  /\ UNCHANGED <<variant, nextId>>
  /\ Harness

\* the slot is free for the next request
Return(r) ==
  /\ req[r].pc = "done"
  /\ req' = [req EXCEPT ![r] = Idle]
  /\ UNCHANGED <<variant, blob, nextId>>
  /\ Harness

HarnessIdle == vin = BlankSchedule /\ verrs = <<>> /\ vpc = "off"

InitStore ==
  /\ blob \in {NoBlob, EmptyBlob}
  /\ nextId = 1
  /\ req = [r \in Reqs |-> Idle]
  /\ HarnessIdle

Init == variant \in {"A", "B"} /\ InitStore

InitA == variant = "A" /\ InitStore

Next ==
  \E r \in Reqs :
    \/ StartGet(r)
    \/ \E body \in PostBodies : StartPost(r, body)
    \/ \E body \in Bodies : StartPut(r, body)
    \/ \E id \in 0..MaxIds : StartDelete(r, id)
    \/ ReadResp(r)
    \/ WriteResp(r)
    \/ WriteLost(r)
    \/ Return(r)

Spec == Init /\ [][Next]_vars

SpecA == InitA /\ [][Next]_vars

\* Every remote call completes: the store's answer to a GET or a PUT in flight
\* arrives (or the socket reports an error), and a handler that has sent its
\* response returns.
Fairness ==
  \A r \in Reqs :
    /\ SF_vars(ReadResp(r))
    /\ SF_vars(WriteResp(r) \/ WriteLost(r))
    /\ WF_vars(Return(r))

SpecLive == InitA /\ [][Next]_vars /\ Fairness

(***************************************************************************)
(* validateSchedule on its own                                             *)
(***************************************************************************)
InitV ==
  /\ variant = "A"
  /\ blob = NoBlob
  /\ nextId = 1
  /\ req = [r \in Reqs |-> Idle]
  /\ vin \in ValidateInputs
  /\ verrs = <<>>
  /\ vpc = "in"

Validate ==
  /\ vpc = "in"
  /\ verrs' = validateSchedule(vin)
  /\ vpc' = "out"
  /\ UNCHANGED <<variant, blob, nextId, req, vin>>

NextV == Validate

SpecV == InitV /\ [][NextV]_vars

(***************************************************************************)
(* Properties                                                              *)
(***************************************************************************)
\* the time of day a string that passes the format check names, in minutes
Minutes(t) ==
  IF Len(t) = 5
  THEN 60 * (10 * DigitVal(t[1]) + DigitVal(t[2]))
       + 10 * DigitVal(t[4]) + DigitVal(t[5])
  ELSE 60 * DigitVal(t[1]) + 10 * DigitVal(t[3]) + DigitVal(t[4])

Success == {200, 201}

\* the store handled r's PUT in this step (it did not fail before the file)
Handled(r) ==
  /\ req[r].pc = "write"
  /\ req'[r].wres \in {"accepted", "conflict", "nosha", "lost"}

\* r's PUT was answered in this step
Answered(r) == req[r].pc = "write" /\ req'[r].pc = "done"

\* C1: of two mutating requests that read the same blob before either wrote,
\* the first whose write the store handles is accepted, the stored collection
\* is then the winner's mutation of the commonly read collection, and (the
\* winner having changed the content) the other's write no longer matches the
\* store.
C1_FirstWriteWins ==
  [][\A p, q \in Reqs :
       (/\ p # q
        /\ req[q].pc = "write"
        /\ req[p].saw # "fail" /\ req[p].saw = req[q].saw
        /\ req[p].rsha = req[q].rsha
        /\ Handled(p))
       => /\ req'[p].wres \in {"accepted", "lost"}
          /\ blob'.exists /\ ListOf(variant, blob') = req[p].put.recs
          /\ blob' # blob => ~StoreAccepts(blob', req[q].put)]_vars

\* C2: a write the store rejects for a stale token leaves the stored file as
\* it was and is answered with an error, never with a success status.
C2_ConflictIsError ==
  [][\A r \in Reqs :
       (req[r].pc = "write" /\ req'[r].wres = "conflict")
       => (blob' = blob /\ req'[r].pc = "done" /\ req'[r].status \notin Success)]_vars

NonIdEqual(a, b) == [a EXCEPT !.id = 0] = [b EXCEPT !.id = 0]

HasId(schedules, id) == \E i \in 1..Len(schedules) : schedules[i].id = id

\* C3: a create answered 201: list then
\* returns the collection before the create plus one record at the end, equal
\* to the input in every field but the id, with an id the collection did not
\* hold.
C3_CreateThenList ==
  [][\A r \in Reqs :
       (Answered(r) /\ req[r].method = "POST" /\ req'[r].status = 201)
       => LET pre == ListOf(variant, blob)
              post == ListOf(variant, blob')
              new == req'[r].out[1]
          IN  /\ post = Append(pre, new)
              /\ NonIdEqual(new, req[r].input)
              /\ new.id # 0
              /\ ~HasId(pre, new.id)]_vars

\* a create was answered 201 on a collection that already held the record of
\* id 1, and the blob holds both
C3_Witness ==
  \E r \in Reqs :
    /\ req[r].pc = "done" /\ req[r].method = "POST" /\ req[r].status = 201
    /\ Len(blob.recs) = 2
    /\ blob.recs[2] = req[r].out[1]
    /\ blob.recs[1].id = 1
    /\ blob.recs[2].note # blob.recs[1].note

\* C4: an update answered 200: list then returns a collection of the same
\* length, the record with the input's id equal to the whole input, every
\* other record as before.
C4_UpdateThenList ==
  [][\A r \in Reqs :
       (Answered(r) /\ req[r].method = "PUT" /\ req'[r].status = 200)
       => LET pre == ListOf(variant, blob)
              post == ListOf(variant, blob')
              in == req[r].input
          IN  /\ Len(post) = Len(pre)
              /\ HasId(pre, in.id)
              /\ \A i \in 1..Len(pre) :
                   post[i] = IF pre[i].id = in.id THEN in ELSE pre[i]]_vars

\* an update was answered 200 that replaced the first of two records, which
\* had a note, by a body without one
C4_Witness ==
  \E r \in Reqs :
    /\ req[r].pc = "done" /\ req[r].method = "PUT" /\ req[r].status = 200
    /\ req[r].wres = "accepted"
    /\ Len(blob.recs) = 2
    /\ blob.recs[1] = req[r].out[1]
    /\ blob.recs[1].note = ""
    /\ blob.recs[2].note = "x"

\* C5: a delete answered 200: list then returns the collection without the
\* record of that id, the others as before, and a delete of the same id that
\* reads this collection is answered 404.
C5_DeleteThenList ==
  [][\A r \in Reqs :
       (Answered(r) /\ req[r].method = "DELETE" /\ req'[r].status = 200)
       => LET pre == ListOf(variant, blob)
              post == ListOf(variant, blob')
              id == req[r].qid
              again == AfterRead(variant,
                                 [Idle EXCEPT !.pc = "read", !.method = "DELETE",
                                              !.qid = id],
                                 StoreGet(blob'))
          IN  /\ ~HasId(post, id)
              /\ HasId(pre, id)
              /\ post = Splice(pre, findIndex(pre, id))
              /\ again.pc = "done" /\ again.status = 404]_vars

\* the seven rules of the specification, the format rules as the code's format
\* check decides them
Rule1(s) == s.class \in ValidClasses
Rule2(s) == s.day \in ValidDays
Rule3(s) == s.subject # ""
Rule4(s) == s.teacher # ""
Rule5(s) == TimeRegex(s.startTime)
Rule6(s) == TimeRegex(s.endTime)
Rule7(s) == (Rule5(s) /\ Rule6(s)) => Minutes(s.endTime) > Minutes(s.startTime)

Contains(errors, msg) == \E i \in 1..Len(errors) : errors[i] = msg

\* C6: the error list holds the message of every rule the input violates, and
\* is empty exactly when the input satisfies all seven.
C6_EveryViolationReported ==
  vpc = "out" =>
    /\ ~Rule1(vin) => Contains(verrs, ErrClass)
    /\ ~Rule2(vin) => Contains(verrs, ErrDay)
    /\ ~Rule3(vin) => Contains(verrs, ErrSubject)
    /\ ~Rule4(vin) => Contains(verrs, ErrTeacher)
    /\ ~Rule5(vin) => Contains(verrs, ErrStart)
    /\ ~Rule6(vin) => Contains(verrs, ErrEnd)
    /\ ~Rule7(vin) => Contains(verrs, ErrOrder)
    /\ (verrs = <<>>) <=> (/\ Rule1(vin) /\ Rule2(vin) /\ Rule3(vin) /\ Rule4(vin)
                           /\ Rule5(vin) /\ Rule6(vin) /\ Rule7(vin))

\* C7: every stored record ends strictly later than it starts.
C7_StoredEndAfterStart ==
  \A i \in 1..Len(blob.recs) :
    Minutes(blob.recs[i].endTime) > Minutes(blob.recs[i].startTime)

InputOk(rq) ==
  /\ rq.method \in {"POST", "PUT"} => validateSchedule(rq.input) = <<>>
  /\ rq.method = "PUT" => rq.input.id # 0
  /\ rq.method = "DELETE" => rq.qid # 0

\* C8: a request starts by leaving the store alone; it goes on to its read only
\* with an input that passes validation and, for update and delete, an id;
\* otherwise it is answered 400 at once, having read and written nothing.
C8_NoIoOnBadInput ==
  [][\A r \in Reqs :
       (req[r].pc = "idle" /\ req'[r].pc # "idle")
       => /\ blob' = blob
          /\ req'[r].pc \in {"read", "done"}
          /\ req'[r].pc = "read" => InputOk(req'[r])
          /\ req'[r].pc = "done"
             => /\ req'[r].status = 400
                /\ req'[r].saw = "none" /\ req'[r].wres = "none"]_vars

\* an update with one violated rule was answered 400 while another request
\* had its write in flight
C8_Witness ==
  \E r, q \in Reqs :
    /\ req[r].pc = "done" /\ req[r].method = "PUT" /\ req[r].status = 400
    /\ req[r].error = "validation"
    /\ req[q].pc = "write"

\* C9: a write in flight carries the token its request's read returned, and
\* carries none only when that read found no blob.
C9_TokenOmittedOnlyIfAbsent ==
  \A r \in Reqs :
    req[r].pc = "write"
    => /\ req[r].put.sha = req[r].rsha
       /\ ~req[r].put.sha.present => req[r].saw = "absent"

\* C10: a read the store answers with not-found gives the empty collection and
\* no token: a list is answered 200 with the empty list, a create sends a write
\* without a token, and that write, reaching the store while the blob is still
\* absent, creates it holding exactly the new record.
C10_AbsentBlobIsEmpty ==
  [][\A r \in Reqs :
       /\ (req[r].pc = "read" /\ req'[r].saw = "absent")
          => /\ req'[r].rsha = NoSha
             /\ req[r].method = "GET"
                => (req'[r].status = 200 /\ req'[r].out = <<>>)
             /\ req[r].method = "POST"
                => /\ req'[r].pc = "write"
                   /\ ~req'[r].put.sha.present
                   /\ req'[r].put.recs = <<req[r].schedule>>
             /\ req[r].method \in {"PUT", "DELETE"} => req'[r].status = 404
       /\ (Handled(r) /\ req[r].method = "POST" /\ req[r].saw = "absent"
           /\ ~blob.exists)
          => /\ req'[r].wres \in {"accepted", "lost"}
             /\ blob'.exists
             /\ ListOf(variant, blob') = <<req[r].schedule>>]_vars

\* a create that read no blob was answered 201 and the blob holds its record
C10_Witness ==
  \E r \in Reqs :
    /\ req[r].pc = "done" /\ req[r].method = "POST" /\ req[r].status = 201
    /\ req[r].saw = "absent" /\ req[r].wres = "accepted"
    /\ blob.exists /\ blob.recs = req[r].out

\* C11: a request sends its read only when it starts and its write only when
\* its read has completed, so at most one of each; a write in flight ends only
\* with the response; a write the store rejects or fails leaves the file as it
\* is and ends the request with an error; an answered request does nothing
\* more.
C11_OneReadOneWrite ==
  [][\A r \in Reqs :
       /\ (req'[r].pc = "read" /\ req[r].pc # "read") => req[r].pc = "idle"
       /\ (req'[r].pc = "write" /\ req[r].pc # "write")
          => (req[r].pc = "read" /\ req'[r].saw \notin {"none", "fail"})
       /\ (req[r].pc = "write" /\ req'[r].pc # "write")
          => (req'[r].pc = "done" /\ req'[r].wres # "none")
       /\ (req[r].pc = "write" /\ req'[r].wres \in {"conflict", "nosha", "failed"})
          => /\ blob' = blob
             /\ req'[r].pc = "done"
             /\ req'[r].status \notin Success
       /\ (req[r].pc = "done" /\ req'[r].pc # "done")
          => (req'[r] = Idle /\ blob' = blob)]_vars

\* a create that read a stored collection had its write rejected for a stale
\* token and was answered 409
C11_Witness ==
  \E r \in Reqs :
    /\ req[r].pc = "done" /\ req[r].method = "POST"
    /\ req[r].saw = "json" /\ req[r].wres = "conflict"
    /\ req[r].status = 409

\* C12: a read the store answers with a failure other than not-found ends the
\* request at once, with no write sent, with an error status that is neither
\* the conflict's (409) nor the validation error's (400).
C12_ReadFailureAborts ==
  [][\A r \in Reqs :
       (req[r].pc = "read" /\ req'[r].saw = "fail")
       => /\ req'[r].pc = "done"
          /\ req'[r].status \notin Success \cup {400, 409}
          /\ blob' = blob]_vars

\* the store's answer to r's call in this step could not be decoded
Undecodable(r) ==
  /\ req[r].pc \in {"read", "write"}
  /\ req'[r].pc # req[r].pc
  /\ req'[r].fault \in {"html", "badjson"}

\* C13: an answer of the store that cannot be decoded ends the request with an
\* error response, no write sent after it, whose error is not the transport
\* error's and whose details are the raw body received.
C13_UndecodableIsTypedError ==
  [][\A r \in Reqs :
       Undecodable(r)
       => /\ req'[r].pc = "done"
          /\ req'[r].status \notin Success
          /\ req'[r].error # "Network error"
          /\ req'[r].details = "body"]_vars

\* the id an update or a delete looks for
TargetId(rq) == IF rq.method = "PUT" THEN rq.schedule.id ELSE rq.qid

\* C14: an update or a delete whose read returns a collection holding no
\* record of its id is answered 404 at once: no write is sent and the stored
\* file, and so its token, stay as they are.
C14_UnknownIdIsNotFound ==
  [][\A r \in Reqs :
       (/\ req[r].pc = "read" /\ req[r].method \in {"PUT", "DELETE"}
        /\ req'[r].pc # "read" /\ req'[r].saw # "fail"
        /\ ~HasId(ListOf(variant, blob), TargetId(req[r])))
       => /\ req'[r].pc = "done"
          /\ req'[r].status = 404
          /\ req'[r].wres = "none"
          /\ blob' = blob /\ ShaOf(blob') = ShaOf(blob)]_vars

\* a delete that read a stored collection of one record or more was answered
\* 404, the collection still as it was read
C14_Witness ==
  \E r \in Reqs :
    /\ req[r].pc = "done" /\ req[r].method = "DELETE" /\ req[r].status = 404
    /\ req[r].saw = "json" /\ req[r].wres = "none"
    /\ Len(blob.recs) >= 1

\* the ids of a collection, in its order
IdsOf(schedules) == [i \in 1..Len(schedules) |-> schedules[i].id]

NoDupIds(schedules) ==
  \A i, j \in 1..Len(schedules) :
    schedules[i].id = schedules[j].id => i = j

\* the id is in the store, or on its way there in a request's record or PUT
IdInUse(id) ==
  \/ HasId(blob.recs, id)
  \/ \E q \in Reqs : req[q].pc \in {"read", "write"} /\ req[q].method = "POST"
                       /\ req[q].schedule.id = id
  \/ \E q \in Reqs : HasId(req[q].put.recs, id)

\* C15: a create gives its record the generated id whatever id the input
\* carries, an id not in use anywhere; the collection an update writes has the
\* ids of the collection it read, position by position; and the stored
\* collection never holds two records of one id.
C15_IdsServerAssignedUnique ==
  [][/\ \A r \in Reqs :
          /\ (req[r].pc = "idle" /\ req'[r].pc = "read" /\ req'[r].method = "POST")
             => /\ req'[r].schedule.id = generateScheduleId
                /\ req'[r].schedule.id # 0
                /\ ~IdInUse(req'[r].schedule.id)
                /\ NonIdEqual(req'[r].schedule, req'[r].input)
          /\ (req[r].pc = "read" /\ req'[r].pc = "write" /\ req[r].method = "PUT")
             => IdsOf(req'[r].put.recs) = IdsOf(ListOf(variant, blob))
     /\ NoDupIds(blob'.recs)]_vars

\* a create whose input carries the id of a stored record has its write in
\* flight, its record under another id, the stored one untouched
C15_Witness ==
  \E r \in Reqs :
    /\ req[r].pc = "write" /\ req[r].method = "POST"
    /\ req[r].input.id # 0
    /\ HasId(blob.recs, req[r].input.id)
    /\ req[r].schedule.id # req[r].input.id
    /\ Len(req[r].put.recs) = 2

\* the store took r's PUT in this step
Accepted(r) == req[r].pc = "write" /\ req'[r].wres \in {"accepted", "lost"}

Effect(rq, schedules) ==
  CASE rq.method = "POST" -> Append(schedules, rq.schedule)
    [] rq.method = "PUT" ->
         [i \in 1..Len(schedules) |->
            IF schedules[i].id = rq.input.id THEN rq.input ELSE schedules[i]]
    [] rq.method = "DELETE" ->
         SelectSeq(schedules, LAMBDA s : s.id # rq.qid)
    [] OTHER -> schedules

\* r's mutation was answered with success in this step
Succeeded(r) == Answered(r) /\ req'[r].status \in Success

\* C17: step by step, the stored collection is the fold of the mutations
\* answered with success: a mutation answered with success is applied to the
\* stored collection in the step that answers it, and the stored file changes
\* in no other step.
C17_StoreIsFoldOfSuccesses ==
  [][/\ \A r \in Reqs :
          Succeeded(r)
          => (blob'.exists /\ blob'.recs = Effect(req[r], ListOf(variant, blob)))
     /\ blob' # blob => \E r \in Reqs : Succeeded(r)]_vars

\* C18: with every remote call completing, a request with a call in flight is
\* eventually answered; a response is sent once, by the step that starts the
\* request or by the completion of its call in flight and by nothing else (no
\* timer answers for a call that has not completed), and after it the request
\* is over.
C18_AnsweredOnceWhenCallsComplete ==
  /\ \A r \in Reqs : (req[r].pc \in {"read", "write"}) ~> (req[r].pc = "done")
  /\ [][\A r \in Reqs :
          /\ (req'[r].pc = "done" /\ req[r].pc # "done")
             => /\ req'[r].status # 0
                /\ req[r].pc = "read" => req'[r].saw # "none"
                /\ req[r].pc = "write" => req'[r].wres # "none"
          /\ (req[r].pc = "done" /\ req'[r].pc # "done") => req'[r] = Idle
          /\ (req[r].pc \in {"read", "write"} /\ req'[r].pc # "done")
             => req'[r].status = 0]_vars

\* an update whose PUT ended in a transport error was answered 500
C18_Witness ==
  \E r \in Reqs :
    /\ req[r].pc = "done" /\ req[r].method = "PUT"
    /\ req[r].wres = "failed" /\ req[r].fault = "net"
    /\ req[r].status = 500 /\ req[r].error = "Network error"

====
